---- MODULE Spec2Model ----
(***************************************************************************)
(* Model of update_pools_parallelv2.py: bulk update of the "pools" key of  *)
(* the ccminer config on many hosts over SSH, with remote backup rotation, *)
(* an optional switchpool trigger and a thread-pool orchestrator.          *)
(*                                                                         *)
(* Python values are modelled as follows.                                  *)
(*   Optional[x]   None is <<>>, a value x is <<x>>                        *)
(*   dict          a function from its keys (strings) to its values; a key *)
(*                 that is missing is not in the DOMAIN                    *)
(*   list          a sequence                                              *)
(*   file content  a record [kind |-> ...]: "absent" (no such file),       *)
(*                 "garbage" (text that is no JSON, e.g. a truncated       *)
(*                 file) or "json" (with the parsed value and whether the  *)
(*                 text is in the layout json.dumps(indent=4) produces)    *)
(***************************************************************************)
EXTENDS Integers, Sequences, FiniteSets, TLC

VARIABLES
    args,       \* the parsed command line shared by all workflows (main, 268-292)
    hosts,      \* the list of host addresses (main, 274-278)
    mainPc,     \* position of the main thread: "submit", "collect", "exited"
    pending,    \* futures as_completed has not yielded yet (main, 313)
    results,    \* main's list of collected HostResults (302)
    succeeded,  \* main's counter (303)
    failed,     \* main's counter (304)
    exitCode,   \* the status given to sys.exit (341); <<>> while running
    pc,         \* per host: position of its process_host call
    result,     \* per host: the result dict of process_host (169)
    client,     \* per host: the SSH session: "new", "open", "closed"
    sftp,       \* per host: the SFTP channel: "none", "open", "closed"
    ok,         \* per host: what make_remote_backup returned: "unset", "ok", "failed"
    data,       \* per host: the text read from the live config (195)
    config,     \* per host: the parsed and then rewritten document (202-215)
    live,       \* per host: content of ~/ccminer/config.json
    live0,      \* per host: content of the live config when the run started
    orig,       \* per host: content of configbackups/config.json.orig
    slot,       \* per host: the numbered backups configbackups/config.json.<i>,
                \* a dict from the numbers i that exist to the file contents
    mut,        \* the mutator exercised on its own: inputs and outputs
    rot         \* the rotation exercised on its own: outcome of the last call

vars == <<args, hosts, mainPc, pending, results, succeeded, failed, exitCode,
          pc, result, client, sftp, ok, data, config, live, live0, orig, slot,
          mut, rot>>

orchVars == <<args, hosts, mainPc, pending, results, succeeded, failed, exitCode>>
hostVars == <<pc, result, client, sftp, ok, data, config>>
fsVars == <<live, live0, orig, slot>>

(***************************************************************************)
(* Bounds of the model.                                                    *)
(***************************************************************************)
MaxPools == 2
MaxHosts == 2
MaxWorkers == 2
MaxVer == 6

(***************************************************************************)
(* Program constants.                                                      *)
(***************************************************************************)
NumSlots == 5
DEFAULT_WORKERS == 10

(***************************************************************************)
(* Python values.                                                          *)
(***************************************************************************)
None == <<>>
Some(x) == <<x>>

\* Truth value of an Optional[str]: None and "" are falsy.
Truthy(o) == o # None /\ o[1] # ""

\* d[k] = v on a dict
SetKey(d, k, v) == [x \in DOMAIN d \cup {k} |-> IF x = k THEN v ELSE d[x]]

\* A JSON value that is no object: it has no .get
NonDict == [nondict |-> TRUE]
IsDict(p) == "nondict" \notin DOMAIN p

Urls == {"u1", "u2"}

\* Pool entries: url and disabled may be missing; name is an opaque field.
DictEntries ==
    {[name |-> "A", url |-> u, disabled |-> d] : u \in Urls, d \in {0, 1}}
    \cup {[name |-> "A", url |-> u] : u \in Urls}
    \cup {[name |-> "A", disabled |-> d] : d \in {0, 1}}
    \cup {[name |-> "A"]}
PoolEntries == DictEntries \cup {NonDict}

SeqsUpTo(S, n) == UNION {[1..k -> S] : k \in 0..n}
PoolLists == SeqsUpTo(PoolEntries, MaxPools)

\* Config documents: a dict with any of the keys user, threads, pools; or no dict.
Documents ==
    {NonDict} \cup
    UNION {
      {[k \in ks |-> CASE k = "user" -> "alice"
                       [] k = "threads" -> 4
                       [] k = "pools" -> ps] : ps \in PoolLists}
      : ks \in SUBSET {"user", "threads", "pools"}}

\* File contents.
Absent == [kind |-> "absent"]
Garbage == [kind |-> "garbage"]
Json(v, pretty) == [kind |-> "json", val |-> v, indent4 |-> pretty]

(***************************************************************************)
(* update_pools_list (146-161).  The result is [raised, val]: raised when  *)
(* the loop hits an entry without .get (AttributeError).                   *)
(***************************************************************************)
HasUrl(p, o) == "url" \in DOMAIN p /\ p.url = o[1]

\* The loop body without the url test.
MutUpdateEntryAll(p, disable_url, enable_url) ==
    IF Truthy(disable_url)
    THEN SetKey(p, "disabled", 1)
    ELSE IF Truthy(enable_url)
         THEN SetKey(p, "disabled", 0)
         ELSE p

\* The loop body flipping the flag of a matching entry.
MutUpdateEntryToggle(p, disable_url, enable_url) ==
    IF Truthy(disable_url) /\ HasUrl(p, disable_url)
    THEN SetKey(p, "disabled", IF "disabled" \in DOMAIN p /\ p.disabled = 1 THEN 0 ELSE 1)
    ELSE IF Truthy(enable_url) /\ HasUrl(p, enable_url)
         THEN SetKey(p, "disabled", IF "disabled" \in DOMAIN p /\ p.disabled = 0 THEN 1 ELSE 0)
         ELSE p

\* The loop body testing the enable url before the disable url.
MutUpdateEntryEnableFirst(p, disable_url, enable_url) ==
    IF Truthy(enable_url) /\ HasUrl(p, enable_url)
    THEN SetKey(p, "disabled", 0)
    ELSE IF Truthy(disable_url) /\ HasUrl(p, disable_url)
         THEN SetKey(p, "disabled", 1)
         ELSE p

\* One iteration of the loop body (154-159).
update_entry(p, disable_url, enable_url) ==
    IF Truthy(disable_url) /\ HasUrl(p, disable_url)
    THEN IF "disabled" \notin DOMAIN p \/ p.disabled # 1
         THEN SetKey(p, "disabled", 1)
         ELSE p
    ELSE IF Truthy(enable_url) /\ HasUrl(p, enable_url)
         THEN IF "disabled" \notin DOMAIN p \/ p.disabled # 0
              THEN SetKey(p, "disabled", 0)
              ELSE p
         ELSE p

\* The for loop (153-159) from index i on.
RECURSIVE pools_loop(_, _, _, _)
pools_loop(pools, i, disable_url, enable_url) ==
    IF i > Len(pools)
    THEN [raised |-> FALSE, val |-> pools]
    ELSE IF ~IsDict(pools[i]) /\ (Truthy(disable_url) \/ Truthy(enable_url))
         THEN [raised |-> TRUE, val |-> pools]
         ELSE pools_loop([pools EXCEPT ![i] = update_entry(pools[i], disable_url, enable_url)],
                         i + 1, disable_url, enable_url)

\* The function without its first two lines (150-151).
MutIgnoreReplacement(existing_pools, disable_url, enable_url, new_pools) ==
    pools_loop(existing_pools, 1, disable_url, enable_url)

update_pools_list(existing_pools, disable_url, enable_url, new_pools) ==
    IF new_pools # None
    THEN [raised |-> FALSE, val |-> new_pools[1]]
    ELSE pools_loop(existing_pools, 1, disable_url, enable_url)

(***************************************************************************)
(* The document rewrite of process_host (208-215).  [raised, val]: raised  *)
(* when the document is no dict (config.get) or update_pools_list raises.  *)
(***************************************************************************)
\* 210: config.get("pools", [])
pools_of(cfg) == IF "pools" \in DOMAIN cfg THEN cfg.pools ELSE <<>>

rewrite_config(cfg, disable_url, enable_url, new_pools) ==
    IF ~IsDict(cfg)
    THEN [raised |-> TRUE, val |-> cfg]
    ELSE LET user_val == IF "user" \in DOMAIN cfg THEN Some(cfg.user) ELSE None
             pools_existing == pools_of(cfg)
             pools_updated == update_pools_list(pools_existing, disable_url,
                                                enable_url, new_pools)
             cfg1 == SetKey(cfg, "pools", pools_updated.val)
             cfg2 == IF user_val # None THEN SetKey(cfg1, "user", user_val[1]) ELSE cfg1
         IN  IF pools_updated.raised
             THEN [raised |-> TRUE, val |-> cfg]
             ELSE [raised |-> FALSE, val |-> cfg2]

\* json.loads (202): [raised, val]
json_loads(text) ==
    IF text.kind = "json"
    THEN [raised |-> FALSE, val |-> text.val]
    ELSE [raised |-> TRUE, val |-> NonDict]

\* json.dumps(config, indent=4) (218)
json_dumps(cfg) == Json(cfg, TRUE)

(***************************************************************************)
(* make_remote_backup (112-133): the rotation script, run under set -e.    *)
(* What the remote shell may answer is the record env:                     *)
(*   dir     mkdir -p and cd succeed (114-116); otherwise the script exits *)
(*           non-zero before touching a file                               *)
(*   cpOrig  the cp of line 119 succeeds when the live config is there     *)
(*   mvFail  the slot whose mv (125) fails, 0 for none; a failing mv ends  *)
(*           the script with a non-zero status                             *)
(*   cp1     the cp of line 128 succeeds when the live config is there     *)
(* A failing cp is swallowed by "2>/dev/null || true" and leaves no file.  *)
(***************************************************************************)
RotEnvs == [dir : BOOLEAN, cpOrig : BOOLEAN, mvFail : 0..(NumSlots - 1), cp1 : BOOLEAN]

\* The copy of line 119 without the test of line 118.
MutOrigAlways(l, o, cpOk) ==
    IF l # Absent /\ cpOk THEN l ELSE o

\* 118-120: write the original snapshot unless there is one.
orig_step(l, o, cpOk) ==
    IF o = Absent
    THEN IF l # Absent /\ cpOk THEN l ELSE o
    ELSE o

\* The removal of line 122 hitting config.json.4.
MutRmOffByOne(s) == [k \in DOMAIN s \ {NumSlots - 1} |-> s[k]]

\* 122: [ -f config.json.5 ] && rm -f config.json.5 || true
rm_step(s) == [k \in DOMAIN s \ {NumSlots} |-> s[k]]

\* 125: mv config.json.$i config.json.$((i+1))
mv(s, i) == [k \in (DOMAIN s \ {i}) \cup {i + 1} |-> IF k = i + 1 THEN s[i] ELSE s[k]]

\* 124-126: for i in 4 3 2 1: mv config.json.$i config.json.$((i+1)), from i down.
RECURSIVE shift_loop(_, _, _)
shift_loop(s, i, mvFail) ==
    IF i = 0
    THEN [done |-> TRUE, slot |-> s]
    ELSE IF i \in DOMAIN s
         THEN IF mvFail = i
              THEN [done |-> FALSE, slot |-> s]
              ELSE shift_loop(mv(s, i), i - 1, mvFail)
         ELSE shift_loop(s, i - 1, mvFail)

\* 128: cp {config_path} config.json.1 2>/dev/null || true
cp1_step(s, l, cpOk) ==
    IF l # Absent /\ cpOk THEN SetKey(s, 1, l) ELSE s

\* The whole script: [success, orig, slot]; success is exit status 0 (131).
make_remote_backup(l, o, s, env) ==
    IF ~env.dir
    THEN [success |-> FALSE, orig |-> o, slot |-> s]
    ELSE LET o1 == orig_step(l, o, env.cpOrig)
             sh == shift_loop(rm_step(s), NumSlots - 1, env.mvFail)
         IN  IF ~sh.done
             THEN [success |-> FALSE, orig |-> o1, slot |-> sh.slot]
             ELSE [success |-> TRUE, orig |-> o1, slot |-> cp1_step(sh.slot, l, env.cp1)]

NoSlots == <<>>

(***************************************************************************)
(* process_host (164-251), one call per host, in steps.                    *)
(*   pc: "unsubmitted", "queued", "connect", "resolve", "backup", "read",  *)
(*       "parse", "mutate", "write", "switch", "finally", "done" (the      *)
(*       future holds the returned dict), "raised" (it holds an exception) *)
(* result.msg is the list of the message's parts (joined by " | ").        *)
(***************************************************************************)
HostSet == {hosts[i] : i \in 1..Len(hosts)}

RunningPcs == {"connect", "resolve", "backup", "read", "parse", "mutate",
               "write", "switch", "finally"}
Running == {h \in HostSet : pc[h] \in RunningPcs}

\* 169
NewResult(ip) ==
    [ip |-> ip, success |-> FALSE, updated |-> FALSE, switched |-> FALSE, msg |-> <<>>]

\* A workflow that runs the update block whatever was asked for.
MutWantsUpdateAlways == TRUE

\* 185: is a change of the config asked for
WantsUpdate ==
    Truthy(args.disable_url) \/ Truthy(args.enable_url) \/ args.new_pools # None

\* 236
Line236(r) == [r EXCEPT !.success = r.updated \/ r.switched]

\* An except clause that still reports what was done before the fault.
MutUnhandledKeepsOutcome(r) ==
    [r EXCEPT !.msg = <<"Unhandled error">>, !.success = r.updated \/ r.switched]

\* 238-239: the except clause of the outer try
Unhandled(r) == [r EXCEPT !.msg = <<"Unhandled error">>]

\* 229 and 236: after the update block, the switch step if asked for, else the end
Proceed(r) ==
    IF args.switch_pool
    THEN [pc |-> "switch", res |-> r]
    ELSE [pc |-> "finally", res |-> Line236(r)]

\* The gate ignoring what make_remote_backup returned.
MutBackupGateOpen(success) == "read"

\* 187-190: the gate behind make_remote_backup
backup_gate(success) == IF success THEN "read" ELSE "finally"

\* A pool that starts a thread although max_workers threads are busy.
MutWorkerFreeOneMore(busy, max_workers) == busy <= max_workers

\* A pool that keeps one of its max_workers threads idle.
MutWorkerFreeOneLess(busy, max_workers) == busy + 1 < max_workers

\* 306: ThreadPoolExecutor(max_workers) runs a queued call only on an idle thread
worker_free(busy, max_workers) == busy < max_workers

\* A worker thread takes the oldest queued call and runs 169-172.
Start(h) ==
    /\ pc[h] = "queued"
    /\ \A g \in HostSet : pc[g] = "queued" => h <= g
    /\ worker_free(Cardinality(Running), args.workers)
    /\ \E raises \in BOOLEAN :
         IF raises
         THEN /\ pc' = [pc EXCEPT ![h] = "raised"]
              /\ UNCHANGED <<result, client>>
         ELSE /\ pc' = [pc EXCEPT ![h] = "connect"]
              /\ result' = [result EXCEPT ![h] = NewResult(h)]
              /\ client' = [client EXCEPT ![h] = "new"]
    /\ UNCHANGED <<sftp, ok, data, config>>
    /\ UNCHANGED <<orchVars, fsVars, mut, rot>>

\* 173-177
Connect(h) ==
    /\ pc[h] = "connect"
    /\ \E connected \in BOOLEAN :
         IF connected
         THEN /\ client' = [client EXCEPT ![h] = "open"]
              /\ pc' = [pc EXCEPT ![h] = "resolve"]
              /\ UNCHANGED result
         ELSE /\ result' = [result EXCEPT ![h].msg = <<"SSH connect failed">>]
              /\ pc' = [pc EXCEPT ![h] = "done"]
              /\ UNCHANGED client
    /\ UNCHANGED <<sftp, ok, data, config>>
    /\ UNCHANGED <<orchVars, fsVars, mut, rot>>

\* 182-185 (and 229, 236 when no change is asked for)
Resolve(h) ==
    /\ pc[h] = "resolve"
    /\ \E fault \in BOOLEAN :
         IF fault
         THEN /\ result' = [result EXCEPT ![h] = Unhandled(@)]
              /\ pc' = [pc EXCEPT ![h] = "finally"]
         ELSE IF WantsUpdate
              THEN /\ pc' = [pc EXCEPT ![h] = "backup"]
                   /\ UNCHANGED result
              ELSE /\ pc' = [pc EXCEPT ![h] = Proceed(result[h]).pc]
                   /\ result' = [result EXCEPT ![h] = Proceed(result[h]).res]
    /\ UNCHANGED <<client, sftp, ok, data, config>>
    /\ UNCHANGED <<orchVars, fsVars, mut, rot>>

\* 186-190
Backup(h) ==
    /\ pc[h] = "backup"
    /\ \E fault \in BOOLEAN, env \in RotEnvs :
         IF fault
         THEN /\ result' = [result EXCEPT ![h] = Unhandled(@)]
              /\ pc' = [pc EXCEPT ![h] = "finally"]
              /\ UNCHANGED <<client, ok, orig, slot>>
         ELSE LET b == make_remote_backup(live[h], orig[h], slot[h], env)
              IN  /\ orig' = [orig EXCEPT ![h] = b.orig]
                  /\ slot' = [slot EXCEPT ![h] = b.slot]
                  /\ ok' = [ok EXCEPT ![h] = IF b.success THEN "ok" ELSE "failed"]
                  /\ pc' = [pc EXCEPT ![h] = backup_gate(b.success)]
                  /\ IF b.success
                     THEN UNCHANGED <<result, client>>
                     ELSE /\ result' = [result EXCEPT ![h].msg = <<"backup failed">>]
                          /\ client' = [client EXCEPT ![h] = "closed"]
    /\ UNCHANGED <<sftp, data, config, live, live0>>
    /\ UNCHANGED <<orchVars, mut, rot>>

\* 192-199.  open_sftp may raise an SSHException (no IOError: the outer except
\* takes it) or an OSError (an IOError, with sftp still None); sftp.open and
\* read raise IOError, always so when the file is not there.
Read(h) ==
    /\ pc[h] = "read"
    /\ \E outcome \in {"ok", "ioerror", "ioerror_open_sftp", "fault"} :
         CASE outcome = "ok" ->
                /\ live[h] # Absent
                /\ sftp' = [sftp EXCEPT ![h] = "open"]
                /\ data' = [data EXCEPT ![h] = live[h]]
                /\ pc' = [pc EXCEPT ![h] = "parse"]
                /\ UNCHANGED <<result, client>>
           [] outcome = "ioerror" ->
                /\ sftp' = [sftp EXCEPT ![h] = "open"]
                /\ result' = [result EXCEPT ![h].msg = <<"read config failed">>]
                /\ client' = [client EXCEPT ![h] = "closed"]
                /\ pc' = [pc EXCEPT ![h] = "finally"]
                /\ UNCHANGED data
           [] outcome = "ioerror_open_sftp" ->
                /\ result' = [result EXCEPT ![h].msg = <<"read config failed">>]
                /\ client' = [client EXCEPT ![h] = "closed"]
                /\ pc' = [pc EXCEPT ![h] = "finally"]
                /\ UNCHANGED <<sftp, data>>
           [] outcome = "fault" ->
                /\ result' = [result EXCEPT ![h] = Unhandled(@)]
                /\ pc' = [pc EXCEPT ![h] = "finally"]
                /\ UNCHANGED <<client, sftp, data>>
    /\ UNCHANGED <<ok, config>>
    /\ UNCHANGED <<orchVars, fsVars, mut, rot>>

\* A parse step that goes on after json.loads raised.
MutParseGateOpen(raised) == "mutate"

\* 203-206: the return in the except clause behind json.loads
parse_gate(raised) == IF raised THEN "finally" ELSE "mutate"

\* 201-206
Parse(h) ==
    /\ pc[h] = "parse"
    /\ LET parsed == json_loads(data[h])
       IN  /\ pc' = [pc EXCEPT ![h] = parse_gate(parsed.raised)]
           /\ IF parsed.raised
              THEN /\ result' = [result EXCEPT ![h].msg = <<"json parse failed">>]
                   /\ client' = [client EXCEPT ![h] = "closed"]
                   /\ UNCHANGED config
              ELSE /\ config' = [config EXCEPT ![h] = parsed.val]
                   /\ UNCHANGED <<result, client>>
    /\ UNCHANGED <<sftp, ok, data>>
    /\ UNCHANGED <<orchVars, fsVars, mut, rot>>

\* 208-215
Mutate(h) ==
    /\ pc[h] = "mutate"
    /\ LET rewritten == rewrite_config(config[h], args.disable_url, args.enable_url,
                                       args.new_pools)
       IN  IF rewritten.raised
           THEN /\ result' = [result EXCEPT ![h] = Unhandled(@)]
                /\ pc' = [pc EXCEPT ![h] = "finally"]
                /\ UNCHANGED config
           ELSE /\ config' = [config EXCEPT ![h] = rewritten.val]
                /\ pc' = [pc EXCEPT ![h] = "write"]
                /\ UNCHANGED result
    /\ UNCHANGED <<client, sftp, ok, data>>
    /\ UNCHANGED <<orchVars, fsVars, mut, rot>>

\* 217-227 (and 229, 236 when no switch is asked for).  A failing write leaves
\* the file as it was (open fails) or truncated (the transfer fails).
Write(h) ==
    /\ pc[h] = "write"
    /\ \E outcome \in {"ok", "open_fails", "write_fails"} :
         CASE outcome = "ok" ->
                LET r == [result[h] EXCEPT !.updated = TRUE, !.msg = <<"config updated">>]
                IN  /\ live' = [live EXCEPT ![h] = json_dumps(config[h])]
                    /\ result' = [result EXCEPT ![h] = Proceed(r).res]
                    /\ pc' = [pc EXCEPT ![h] = Proceed(r).pc]
                    /\ UNCHANGED client
           [] outcome = "open_fails" ->
                /\ result' = [result EXCEPT ![h].msg = <<"write config failed">>]
                /\ client' = [client EXCEPT ![h] = "closed"]
                /\ pc' = [pc EXCEPT ![h] = "finally"]
                /\ UNCHANGED live
           [] outcome = "write_fails" ->
                /\ live' = [live EXCEPT ![h] = Garbage]
                /\ result' = [result EXCEPT ![h].msg = <<"write config failed">>]
                /\ client' = [client EXCEPT ![h] = "closed"]
                /\ pc' = [pc EXCEPT ![h] = "finally"]
    /\ UNCHANGED <<sftp, ok, data, config, live0, orig, slot>>
    /\ UNCHANGED <<orchVars, mut, rot>>

\* remote_send_switchpool (136-142): the reply holds "ok|" or it does not.
remote_send_switchpool(reply_ok) ==
    IF reply_ok
    THEN [ok |-> TRUE, msg |-> "switchpool: switchpool ok"]
    ELSE [ok |-> FALSE, msg |-> "switchpool: no ok in reply"]

\* 229-236
Switch(h) ==
    /\ pc[h] = "switch"
    /\ \E fault \in BOOLEAN, reply_ok \in BOOLEAN :
         IF fault
         THEN result' = [result EXCEPT ![h] = Unhandled(@)]
         ELSE LET sw == remote_send_switchpool(reply_ok)
                  r == [result[h] EXCEPT !.switched = sw.ok,
                                         !.msg = Append(@, sw.msg)]
              IN  result' = [result EXCEPT ![h] = Line236(r)]
    /\ pc' = [pc EXCEPT ![h] = "finally"]
    /\ UNCHANGED <<client, sftp, ok, data, config>>
    /\ UNCHANGED <<orchVars, fsVars, mut, rot>>

\* A finally clause that closes the client only.
MutSftpLeftOpen(s) == s

\* 241-245: if sftp: sftp.close()
close_sftp(s) == IF s = "open" THEN "closed" ELSE s

\* 240-251: the finally clause and the return
Finally(h) ==
    /\ pc[h] = "finally"
    /\ sftp' = [sftp EXCEPT ![h] = close_sftp(@)]
    /\ client' = [client EXCEPT ![h] = "closed"]
    /\ pc' = [pc EXCEPT ![h] = "done"]
    /\ UNCHANGED <<result, ok, data, config>>
    /\ UNCHANGED <<orchVars, fsVars, mut, rot>>

(***************************************************************************)
(* main (255-341): the thread pool, the collection loop and the exit.      *)
(***************************************************************************)
\* 315-318: the dict of a future, or the executor-error dict when it raised
future_result(h) ==
    IF pc[h] = "raised"
    THEN [ip |-> h, success |-> FALSE, updated |-> FALSE, switched |-> FALSE,
          msg |-> <<"executor error">>]
    ELSE result[h]

\* as_completed yielding a finished future again and again.
MutYieldAgain(p, h) == p

\* 313: as_completed yields each future once: what is left after yielding h
as_completed_rest(p, h) == p \ {h}

\* An exit status that does not look at the failures.
MutExitAlwaysZero(nfailed) == 0

\* 341
exit_status(nfailed) == IF nfailed = 0 THEN 0 ELSE 1

\* 306-311: ex.submit for the next host of the list; after the last one the
\* collection loop starts with every future pending (313).
Submit ==
    /\ mainPc = "submit"
    /\ \E k \in 1..Len(hosts) :
         /\ pc[hosts[k]] = "unsubmitted"
         /\ \A j \in 1..(k - 1) : pc[hosts[j]] # "unsubmitted"
         /\ pc' = [pc EXCEPT ![hosts[k]] = "queued"]
         /\ IF k = Len(hosts)
            THEN /\ mainPc' = "collect"
                 /\ pending' = HostSet
            ELSE UNCHANGED <<mainPc, pending>>
    /\ UNCHANGED <<args, hosts, results, succeeded, failed, exitCode>>
    /\ UNCHANGED <<result, client, sftp, ok, data, config>>
    /\ UNCHANGED <<fsVars, mut, rot>>

\* 313-326: one turn of the loop over as_completed
\* A tally that counts a host as succeeded when its config was updated.
MutTallyUpdated(res, s, f) ==
    IF res.updated THEN [succeeded |-> s + 1, failed |-> f]
                   ELSE [succeeded |-> s, failed |-> f + 1]

\* 320-325: the counters after one collected result
tally(res, s, f) ==
    IF res.success THEN [succeeded |-> s + 1, failed |-> f]
                   ELSE [succeeded |-> s, failed |-> f + 1]

Collect(h) ==
    /\ mainPc = "collect"
    /\ h \in pending
    /\ pc[h] \in {"done", "raised"}
    /\ LET res == future_result(h)
           t   == tally(res, succeeded, failed)
       IN  /\ results' = Append(results, res)
           /\ succeeded' = t.succeeded
           /\ failed' = t.failed
    /\ pending' = as_completed_rest(pending, h)
    /\ UNCHANGED <<args, hosts, mainPc, exitCode>>
    /\ UNCHANGED <<hostVars, fsVars, mut, rot>>

\* 328-341: the loop is over, the summary is printed and the process exits
Exit ==
    /\ mainPc = "collect"
    /\ pending = {}
    /\ exitCode' = Some(exit_status(failed))
    /\ mainPc' = "exited"
    /\ UNCHANGED <<args, hosts, pending, results, succeeded, failed>>
    /\ UNCHANGED <<hostVars, fsVars, mut, rot>>

(***************************************************************************)
(* Inputs.                                                                 *)
(***************************************************************************)
OptUrls == {None, Some("")} \cup {Some(u) : u \in Urls}

NewEntry == [name |-> "N", url |-> "u2", disabled |-> 0]
OptLists == {None, Some(<<>>), Some(<<NewEntry>>)}

\* 270: at least one action is asked for
ValidArgs(a) ==
    Truthy(a.disable_url) \/ Truthy(a.enable_url) \/ a.new_pools # None \/ a.switch_pool

ArgsWith(W) ==
    {a \in [disable_url : OptUrls, enable_url : OptUrls, new_pools : OptLists,
            switch_pool : BOOLEAN, workers : W] : ValidArgs(a)}

\* The runs of the orchestrator model: one of each kind of request.
OrchArgs ==
    {a \in ArgsWith(1..MaxWorkers) :
        \/ a.disable_url = Some("u1") /\ a.enable_url = None /\ a.new_pools = None
        \/ a.disable_url = None /\ a.enable_url = None /\ a.new_pools = None}

E1 == [name |-> "A", url |-> "u1", disabled |-> 0]
E2 == [name |-> "A", url |-> "u2", disabled |-> 1]
FullDoc(ps) == [user |-> "alice", threads |-> 4, pools |-> ps]

\* An older version of the config, as earlier runs left it in the backups.
OldContent == Json([user |-> "alice", threads |-> 2, pools |-> <<>>], FALSE)

HostDocs ==
    {FullDoc(ps) : ps \in SeqsUpTo({E1, E2, NonDict}, MaxPools)}
    \cup {NonDict, [threads |-> 4], [user |-> "alice", pools |-> <<E1>>]}

HostLive == {Absent, Garbage} \cup {Json(d, FALSE) : d \in HostDocs}

OrchLive == {Json(FullDoc(<<E1, E2>>), FALSE)}

InitCommon ==
    /\ mainPc = "submit"
    /\ pending = {}
    /\ results = <<>>
    /\ succeeded = 0
    /\ failed = 0
    /\ exitCode = None
    /\ pc = [h \in HostSet |-> "unsubmitted"]
    /\ result = [h \in HostSet |-> NewResult(h)]
    /\ client = [h \in HostSet |-> "new"]
    /\ sftp = [h \in HostSet |-> "none"]
    /\ ok = [h \in HostSet |-> "unset"]
    /\ data = [h \in HostSet |-> Absent]
    /\ config = [h \in HostSet |-> NonDict]
    /\ live0 = live
    /\ mut = [pc |-> "off"]
    /\ rot = [pc |-> "off"]

\* The orchestrator on up to MaxHosts hosts with up to MaxWorkers workers;
\* every host has been updated once before.
Init ==
    /\ \E n \in 1..MaxHosts : hosts = [i \in 1..n |-> i]
    /\ args \in OrchArgs
    /\ live \in [HostSet -> OrchLive]
    /\ orig = [h \in HostSet |-> OldContent]
    /\ slot = [h \in HostSet |-> <<OldContent>>]
    /\ InitCommon

\* One host, every request, every kind of live config, with the backup
\* directory empty or full.
InitHost ==
    /\ hosts = <<1>>
    /\ args \in ArgsWith({DEFAULT_WORKERS})
    /\ live \in [HostSet -> HostLive]
    /\ \E full \in BOOLEAN :
         /\ orig = [h \in HostSet |-> IF full THEN OldContent ELSE Absent]
         /\ slot = [h \in HostSet |-> IF full THEN [i \in 1..NumSlots |-> OldContent]
                                               ELSE NoSlots]
    /\ InitCommon

Next ==
    \/ Submit
    \/ \E h \in HostSet : Start(h)
    \/ \E h \in HostSet : Connect(h)
    \/ \E h \in HostSet : Resolve(h)
    \/ \E h \in HostSet : Backup(h)
    \/ \E h \in HostSet : Read(h)
    \/ \E h \in HostSet : Parse(h)
    \/ \E h \in HostSet : Mutate(h)
    \/ \E h \in HostSet : Write(h)
    \/ \E h \in HostSet : Switch(h)
    \/ \E h \in HostSet : Finally(h)
    \/ \E h \in HostSet : Collect(h)
    \/ Exit

Spec == Init /\ [][Next]_vars

SpecHost == InitHost /\ [][Next]_vars

\* The orchestrator with every remote operation returning and the threads
\* scheduled: a step that can be taken is not put off for ever.
SpecFair == Init /\ [][Next]_vars /\ WF_vars(Next)

(***************************************************************************)
(* The mutator on its own: update_pools_list called once and then again on *)
(* its own result, and the document rewrite of process_host, on every      *)
(* document and every combination of arguments within the bounds.          *)
(***************************************************************************)
InitMut ==
    /\ hosts = <<>>
    /\ args = [disable_url |-> None, enable_url |-> None, new_pools |-> None,
               switch_pool |-> TRUE, workers |-> DEFAULT_WORKERS]
    /\ live = <<>>
    /\ orig = <<>>
    /\ slot = <<>>
    /\ mainPc = "submit"
    /\ pending = {}
    /\ results = <<>>
    /\ succeeded = 0
    /\ failed = 0
    /\ exitCode = None
    /\ pc = <<>>
    /\ result = <<>>
    /\ client = <<>>
    /\ sftp = <<>>
    /\ ok = <<>>
    /\ data = <<>>
    /\ config = <<>>
    /\ live0 = <<>>
    /\ rot = [pc |-> "off"]
    /\ \E d \in Documents, du \in OptUrls, eu \in OptUrls, np \in OptLists :
         mut = [pc |-> "in", doc |-> d, disable_url |-> du, enable_url |-> eu,
                new_pools |-> np]

\* update_pools_list on the document's pools
MutCall ==
    /\ mut.pc = "in"
    /\ IsDict(mut.doc)
    /\ mut' = [pc |-> "once", doc |-> mut.doc, disable_url |-> mut.disable_url,
               enable_url |-> mut.enable_url, new_pools |-> mut.new_pools,
               once |-> update_pools_list(pools_of(mut.doc), mut.disable_url,
                                          mut.enable_url, mut.new_pools)]
    /\ UNCHANGED <<orchVars, hostVars, fsVars, rot>>

\* update_pools_list again, on the list the first call returned
MutCallAgain ==
    /\ mut.pc = "once"
    /\ ~mut.once.raised
    /\ mut' = [pc |-> "twice", doc |-> mut.doc, disable_url |-> mut.disable_url,
               enable_url |-> mut.enable_url, new_pools |-> mut.new_pools,
               once |-> mut.once,
               twice |-> update_pools_list(mut.once.val, mut.disable_url,
                                           mut.enable_url, mut.new_pools)]
    /\ UNCHANGED <<orchVars, hostVars, fsVars, rot>>

\* the document rewrite (208-215)
MutRewrite ==
    /\ mut.pc = "in"
    /\ mut' = [pc |-> "rewritten", doc |-> mut.doc, disable_url |-> mut.disable_url,
               enable_url |-> mut.enable_url, new_pools |-> mut.new_pools,
               out |-> rewrite_config(mut.doc, mut.disable_url, mut.enable_url,
                                      mut.new_pools)]
    /\ UNCHANGED <<orchVars, hostVars, fsVars, rot>>

NextMut == MutCall \/ MutCallAgain \/ MutRewrite

SpecMut == InitMut /\ [][NextMut]_vars

(***************************************************************************)
(* The rotation on its own: make_remote_backup called again and again on   *)
(* one host, with the live config rewritten (219-220) in between.          *)
(***************************************************************************)
Ver(n) == Json([threads |-> n, pools |-> <<>>], TRUE)

InitRot ==
    /\ hosts = <<1>>
    /\ args = [disable_url |-> None, enable_url |-> None, new_pools |-> Some(<<>>),
               switch_pool |-> FALSE, workers |-> DEFAULT_WORKERS]
    /\ live \in [HostSet -> {Absent, Ver(0)}]
    /\ orig = [h \in HostSet |-> Absent]
    /\ slot = [h \in HostSet |-> NoSlots]
    /\ mainPc = "submit"
    /\ pending = {}
    /\ results = <<>>
    /\ succeeded = 0
    /\ failed = 0
    /\ exitCode = None
    /\ pc = [h \in HostSet |-> "unsubmitted"]
    /\ result = [h \in HostSet |-> NewResult(h)]
    /\ client = [h \in HostSet |-> "new"]
    /\ sftp = [h \in HostSet |-> "none"]
    /\ ok = [h \in HostSet |-> "unset"]
    /\ data = [h \in HostSet |-> Absent]
    /\ config = [h \in HostSet |-> NonDict]
    /\ live0 = live
    /\ mut = [pc |-> "off"]
    /\ rot = [pc |-> "idle", ver |-> 0, success |-> TRUE]

\* one call of make_remote_backup (186)
RotCall(h) ==
    /\ rot.pc \in {"idle", "rotated"}
    /\ \E env \in RotEnvs :
         LET b == make_remote_backup(live[h], orig[h], slot[h], env)
         IN  /\ orig' = [orig EXCEPT ![h] = b.orig]
             /\ slot' = [slot EXCEPT ![h] = b.slot]
             /\ rot' = [rot EXCEPT !.pc = "rotated", !.success = b.success]
    /\ UNCHANGED <<live, live0, mut>>
    /\ UNCHANGED <<orchVars, hostVars>>

\* one successful write of the live config (219-220): a next version of it
RotWrite(h) ==
    /\ rot.pc = "rotated"
    /\ rot.success
    /\ live[h] # Absent
    /\ rot.ver < MaxVer
    /\ live' = [live EXCEPT ![h] = Ver(rot.ver + 1)]
    /\ rot' = [rot EXCEPT !.pc = "idle", !.ver = rot.ver + 1]
    /\ UNCHANGED <<live0, orig, slot, mut>>
    /\ UNCHANGED <<orchVars, hostVars>>

NextRot ==
    \/ \E h \in HostSet : RotCall(h)
    \/ \E h \in HostSet : RotWrite(h)

SpecRot == InitRot /\ [][NextRot]_vars

(***************************************************************************)
(* The claims.                                                             *)
(***************************************************************************)

\* C1 Backup-before-mutate.  When make_remote_backup reported failure, the
\* SFTP channel is never opened, nothing is read, the live config is what it
\* was when the run started, and the returned result has success = False and
\* the message "backup failed".
C1_BackupBeforeMutate ==
    \A h \in HostSet :
        ok[h] = "failed" =>
            /\ sftp[h] = "none"
            /\ data[h] = Absent
            /\ live[h] = live0[h]
            /\ pc[h] \in {"finally", "done"}
            /\ result[h].success = FALSE
            /\ result[h].updated = FALSE
            /\ result[h].msg = <<"backup failed">>

\* C1 witness: a run returned after a failed rotation that had already moved
\* backups, on a host whose live config is readable JSON.
C1_Witness ==
    \E h \in HostSet :
        /\ ok[h] = "failed"
        /\ pc[h] = "done"
        /\ live[h].kind = "json"
        /\ NumSlots \in DOMAIN slot[h] /\ 1 \in DOMAIN slot[h]
        /\ (NumSlots - 1) \notin DOMAIN slot[h]

\* C2 No write without a fresh backup (the claim as stated).  Whenever a
\* workflow is about to write the live config, config.json.1 exists and holds
\* the content the live config has at that moment.
C2_FreshBackupAtWrite ==
    \A h \in HostSet :
        pc[h] = "write" => 1 \in DOMAIN slot[h] /\ slot[h][1] = live[h]

\* C3 success = updated OR switched (the claim as stated), on every result a
\* finished process_host call returned.
C3_SuccessIsUpdatedOrSwitched ==
    \A h \in HostSet :
        pc[h] = "done" => (result[h].success <=> (result[h].updated \/ result[h].switched))

\* C4 Switch independence (the claim as stated).  With a change and the
\* switch asked for, a call that wrote the config returns success = True
\* whatever the switch step did.
C4_SwitchIndependence ==
    \A h \in HostSet :
        (pc[h] = "done" /\ WantsUpdate /\ args.switch_pool /\ result[h].updated)
            => result[h].success

\* C5 Result completeness.  No host ever has more than one collected result,
\* every collected result carries the address of a submitted host, and when
\* main leaves the loop there are exactly as many results as hosts, one for
\* each address.
ResultsOf(h) == {i \in 1..Len(results) : results[i].ip = h}

C5_ResultCompleteness ==
    /\ \A i \in 1..Len(results) : results[i].ip \in HostSet
    /\ \A h \in HostSet : Cardinality(ResultsOf(h)) <= 1
    /\ \A h \in HostSet : (h \in pending \/ mainPc = "submit") <=> ResultsOf(h) = {}
    /\ mainPc = "exited" =>
          /\ Len(results) = Len(hosts)
          /\ \A h \in HostSet : Cardinality(ResultsOf(h)) = 1

\* C5 witness: main has exited with two or more results, some failed and some
\* succeeded, collected in another order than the hosts were submitted.
C5_Witness ==
    /\ mainPc = "exited"
    /\ Len(results) >= 2
    /\ succeeded >= 1
    /\ failed >= 1
    /\ results[1].ip # hosts[1]

\* C6 Backup bound.  Only config.json.1 .. config.json.5 ever exist, and
\* every step keeps the content of each of the slots 1 to 4 in some slot:
\* only what slot 5 held can be lost.
C6_BackupBound ==
    /\ [](\A h \in HostSet : DOMAIN slot[h] \subseteq 1..NumSlots)
    /\ [][\A h \in HostSet :
            \A i \in DOMAIN slot[h] \cap 1..(NumSlots - 1) :
                \E j \in DOMAIN slot'[h] : slot'[h][j] = slot[h][i]]_vars

\* C6 witness: after six rotations of six versions all five slots are in
\* use, the oldest version has been discarded from slot 5.
C6_Witness ==
    \E h \in HostSet :
        /\ DOMAIN slot[h] = 1..NumSlots
        /\ \A i \in 1..NumSlots : slot[h][i] = Ver(NumSlots + 1 - i)
        /\ orig[h] = Ver(0)

\* C7 Original snapshot (the claim as stated): after a successful rotation
\* the original snapshot exists.
C7_OrigExistsAfterRotation ==
    \A h \in HostSet :
        (rot.pc = "rotated" /\ rot.success) => orig[h] # Absent

\* C7 as amended.  The original snapshot is created only as a copy of the
\* live config as it is at that rotation, and once it exists no later
\* rotation or config write changes or removes it.
C7_OrigWrittenOnce ==
    [][\A h \in HostSet :
          /\ orig[h] # Absent => orig'[h] = orig[h]
          /\ (orig[h] = Absent /\ orig'[h] # Absent) =>
                (orig'[h] = live[h] /\ live'[h] = live[h])]_vars

\* C7 witness: the snapshot still holds the first version after the live
\* config was rewritten and rotated several times.
C7_Witness ==
    \E h \in HostSet :
        /\ orig[h] = Ver(0)
        /\ live[h] = Ver(3)
        /\ 3 \in DOMAIN slot[h]
        /\ rot.pc = "rotated"

\* C8 Idempotence.  update_pools_list with a disable url, an enable url or
\* both (no replacement list) gives, applied to its own result, that result.
C8_Idempotence ==
    (mut.pc = "twice" /\ mut.new_pools = None) =>
        /\ ~mut.twice.raised
        /\ mut.twice.val = mut.once.val

\* C8 witness: a second call after a first call that changed an entry.
C8_Witness ==
    /\ mut.pc = "twice"
    /\ mut.new_pools = None
    /\ Truthy(mut.disable_url) /\ ~Truthy(mut.enable_url)
    /\ mut.once.val # pools_of(mut.doc)
    /\ Len(mut.once.val) = 2

\* C9 Field preservation.  Without a replacement list the rewritten document
\* has the same top-level keys (plus pools) with the same values other than
\* pools, as many pool entries in the same order, every entry whose url is
\* neither target unchanged, and on the others no key other than disabled
\* added, removed or changed.
Matches(p, o) == Truthy(o) /\ HasUrl(p, o)

C9_FieldPreservation ==
    (mut.pc = "rewritten" /\ mut.new_pools = None /\ ~mut.out.raised) =>
        LET before == mut.doc
            after == mut.out.val
            pin == pools_of(before)
            pout == after.pools
        IN  /\ DOMAIN after = DOMAIN before \cup {"pools"}
            /\ \A k \in DOMAIN before \ {"pools"} : after[k] = before[k]
            /\ Len(pout) = Len(pin)
            /\ \A i \in 1..Len(pin) :
                 IF Matches(pin[i], mut.disable_url) \/ Matches(pin[i], mut.enable_url)
                 THEN /\ DOMAIN pin[i] \subseteq DOMAIN pout[i]
                      /\ DOMAIN pout[i] \subseteq DOMAIN pin[i] \cup {"disabled"}
                      /\ \A k \in DOMAIN pin[i] \ {"disabled"} : pout[i][k] = pin[i][k]
                 ELSE pout[i] = pin[i]

\* C9 witness: a rewrite that changed one of two entries of a document with
\* a user field.
C9_Witness ==
    /\ mut.pc = "rewritten"
    /\ mut.new_pools = None
    /\ ~mut.out.raised
    /\ "user" \in DOMAIN mut.doc
    /\ Len(pools_of(mut.doc)) = 2
    /\ mut.out.val.pools[1] # mut.doc.pools[1]
    /\ mut.out.val.pools[2] = mut.doc.pools[2]

\* C10 Replace bypass.  When a replacement list is supplied, the document a
\* workflow wrote has exactly that list as pools, whatever targets were
\* supplied with it, and every other top-level key as it was read.
C10_ReplaceBypass ==
    \A h \in HostSet :
        (args.new_pools # None /\ result[h].updated) =>
            LET before == json_loads(data[h]).val
            IN  /\ live[h].kind = "json"
                /\ live[h].val.pools = args.new_pools[1]
                /\ DOMAIN live[h].val = DOMAIN before \cup {"pools"}
                /\ \A k \in DOMAIN before \ {"pools"} : live[h].val[k] = before[k]

\* C10 witness: an empty replacement list, supplied together with a disable
\* url that matches an entry, has been written over a non-empty pools list.
C10_Witness ==
    \E h \in HostSet :
        /\ args.new_pools = Some(<<>>)
        /\ args.disable_url = Some("u1")
        /\ result[h].updated
        /\ data[h] = Json(FullDoc(<<E1>>), FALSE)
        /\ pc[h] = "done"

\* What one host's workflow reads and writes: its locals, its result and the
\* files on its host.
HostView(h) ==
    <<pc[h], result[h], client[h], sftp[h], ok[h], data[h], config[h],
      live[h], orig[h], slot[h]>>

\* C11 Failure isolation.  A workflow that met an unexpected fault reports
\* success = FALSE, and a call that raised in the executor is collected as a
\* failed result; main exits only after every workflow has ended, faults or
\* not; and a step of one host's workflow, a fault included, changes nothing
\* that another host's workflow reads or writes.
C11_FailureIsolation ==
    /\ [](/\ \A h \in HostSet :
              result[h].msg = <<"Unhandled error">> => ~result[h].success
          /\ \A i \in 1..Len(results) :
              pc[results[i].ip] = "raised" =>
                 /\ ~results[i].success
                 /\ results[i].msg = <<"executor error">>
          /\ mainPc = "exited" =>
                 \A h \in HostSet : /\ pc[h] \in {"done", "raised"}
                                    /\ ResultsOf(h) # {})
    /\ [][\A h, g \in HostSet :
            (h # g /\ HostView(h)' # HostView(h)) => HostView(g)' = HostView(g)]_vars

\* C11 witness: main has exited; one host's workflow met a fault after it
\* had written the config and is collected as failed, another host's
\* workflow succeeded.
C11_Witness ==
    /\ mainPc = "exited"
    /\ \E i, j \in 1..Len(results) :
         /\ results[i].msg = <<"Unhandled error">>
         /\ results[i].updated
         /\ ~results[i].success
         /\ results[j].success
         /\ results[j].ip # results[i].ip

\* C12 Bounded parallelism.  At every moment the number of workflows that a
\* worker has started and that have not yet returned is at most the worker
\* count given on the command line.
C12_BoundedParallelism ==
    Cardinality({h \in HostSet : pc[h] \in RunningPcs}) <= args.workers

\* C12 witness: every worker is busy while a submitted workflow still waits
\* in the queue.
C12_Witness ==
    /\ Cardinality({h \in HostSet : pc[h] \in RunningPcs}) = args.workers
    /\ \E h \in HostSet : pc[h] = "queued"

\* C13 Exit code.  Once main has exited after processing the hosts, its exit
\* status is 0 if every collected result has success = TRUE and 1 if at
\* least one collected result has success = FALSE.
C13_ExitCode ==
    mainPc = "exited" =>
       /\ (\A i \in 1..Len(results) : results[i].success) => exitCode = Some(0)
       /\ (\E i \in 1..Len(results) : ~results[i].success) => exitCode = Some(1)

\* C13 witness: main has exited with status 1 after collecting one failed
\* and one succeeded result.
C13_Witness ==
    /\ mainPc = "exited"
    /\ exitCode = Some(1)
    /\ \E i, j \in 1..Len(results) : results[i].success /\ ~results[j].success

\* The steps that may follow each step of process_host.
NextStages(p) ==
    CASE p = "connect" -> {"resolve", "done"}
      [] p = "resolve" -> IF Truthy(args.disable_url) \/ Truthy(args.enable_url)
                             \/ args.new_pools # None
                          THEN {"backup", "finally"}
                          ELSE IF args.switch_pool THEN {"switch", "finally"}
                                                   ELSE {"finally"}
      [] p = "backup"  -> {"read", "finally"}
      [] p = "read"    -> {"parse", "finally"}
      [] p = "parse"   -> {"mutate", "finally"}
      [] p = "mutate"  -> {"write", "finally"}
      [] p = "write"   -> IF args.switch_pool THEN {"switch", "finally"}
                                              ELSE {"finally"}
      [] p = "switch"  -> {"finally"}
      [] p = "finally" -> {"done"}
      [] OTHER         -> {}

\* The messages of the stage failures (177, 189, 198, 205, 223).
StageFailures ==
    {<<"SSH connect failed">>, <<"backup failed">>, <<"read config failed">>,
     <<"json parse failed">>, <<"write config failed">>}

\* C14 Stage gating.  The steps of a workflow follow each other in the order
\* connect, backup, read, parse, mutate, write, switch, done (backup to write
\* only when a change is asked for, switch only when asked for); a workflow
\* whose connect, backup, read, parse or write failed is at its end with
\* success, updated and switched all FALSE and with nothing of a later stage
\* done: no read after a failed backup, no parsed config and no write after a
\* failed read or parse, no switch command after a failed write.
C14_StageGating ==
    /\ [][\A h \in HostSet :
            (pc[h] \in RunningPcs /\ pc'[h] # pc[h]) => pc'[h] \in NextStages(pc[h])]_vars
    /\ [](\A h \in HostSet :
            result[h].msg \in StageFailures =>
               /\ pc[h] \in {"finally", "done"}
               /\ ~result[h].success /\ ~result[h].updated /\ ~result[h].switched
               /\ result[h].msg = <<"SSH connect failed">> =>
                      ok[h] = "unset"
               /\ result[h].msg \in {<<"SSH connect failed">>, <<"backup failed">>} =>
                      sftp[h] = "none" /\ data[h] = Absent
               /\ result[h].msg # <<"write config failed">> =>
                      config[h] = NonDict /\ live[h] = live0[h])

\* C14 witness: a workflow has ended on a parse failure after a successful
\* backup and read; the config on the host is as it was.
C14_Witness ==
    \E h \in HostSet :
        /\ pc[h] = "done"
        /\ result[h].msg = <<"json parse failed">>
        /\ ok[h] = "ok"
        /\ data[h] = Garbage
        /\ live[h] = live0[h]
        /\ args.switch_pool

\* The request of a switch-only run: nothing to disable, to enable or to
\* replace, and --switchpool given.
SwitchOnly ==
    /\ ~Truthy(args.disable_url)
    /\ ~Truthy(args.enable_url)
    /\ args.new_pools = None
    /\ args.switch_pool

\* C15 Switch-only workflow.  With a switch-only request the workflow runs no
\* backup rotation and opens no file transfer, reads and writes no config:
\* no step changes the live config, the original snapshot or the numbered
\* backups; updated stays FALSE, and the returned success equals switched.
C15_SwitchOnly ==
    /\ [](SwitchOnly =>
            \A h \in HostSet :
               /\ ok[h] = "unset"
               /\ sftp[h] = "none"
               /\ data[h] = Absent
               /\ config[h] = NonDict
               /\ live[h] = live0[h]
               /\ ~result[h].updated
               /\ pc[h] = "done" => result[h].success = result[h].switched)
    /\ [][SwitchOnly => UNCHANGED <<live, orig, slot>>]_vars

\* C15 witness: a switch-only workflow has ended after the control listener
\* gave no ok: success and switched are FALSE, the backups are as they were.
C15_Witness ==
    /\ SwitchOnly
    /\ \E h \in HostSet :
         /\ pc[h] = "done"
         /\ result[h].msg = <<"switchpool: no ok in reply">>
         /\ ~result[h].success
         /\ ~result[h].switched
         /\ client[h] = "closed"
         /\ slot[h] = NoSlots

\* C16 Session release.  A workflow that has returned after a successful
\* connect has closed its SSH client, and whenever it had opened a file
\* transfer channel that channel is closed too; this holds on the normal
\* path, after each stage failure and after an unexpected fault.
C16_SessionRelease ==
    \A h \in HostSet :
        pc[h] = "done" =>
           /\ client[h] # "open"
           /\ sftp[h] # "open"
           /\ result[h].msg # <<"SSH connect failed">> => client[h] = "closed"

\* C16 witness: a workflow has returned after an unexpected fault that came
\* when the file transfer channel was open; client and channel are closed.
C16_Witness ==
    \E h \in HostSet :
        /\ pc[h] = "done"
        /\ result[h].msg = <<"Unhandled error">>
        /\ data[h] # Absent
        /\ sftp[h] = "closed"
        /\ client[h] = "closed"

\* C17 Rotation shift without clobbering.  Every call of make_remote_backup
\* that reports success with the live config present leaves, for each k in
\* 1..4, the former content of slot k in slot k+1 if slot k existed, and
\* leaves the content of the live config in slot 1.
C17_RotationShift ==
    [][\A h \in HostSet :
         (rot'.pc = "rotated" /\ rot'.success /\ live[h] # Absent) =>
            /\ \A k \in 1..(NumSlots - 1) :
                  k \in DOMAIN slot[h] =>
                     /\ (k + 1) \in DOMAIN slot'[h]
                     /\ slot'[h][k + 1] = slot[h][k]
            /\ 1 \in DOMAIN slot'[h]
            /\ slot'[h][1] = live[h]]_vars

\* C18 Termination.  When every remote operation returns and the threads
\* are scheduled, every submitted workflow ends, main collects one result
\* for each of the hosts and exits, whatever the number of hosts and of
\* workers (at least 1).
C18_Termination ==
    <>(/\ mainPc = "exited"
       /\ \A h \in HostSet : pc[h] \in {"done", "raised"}
       /\ Len(results) = Len(hosts))

\* C18 witness: main has exited after running more hosts than it has
\* workers, every workflow at its end.
C18_Witness ==
    /\ mainPc = "exited"
    /\ Len(hosts) > args.workers
    /\ \A h \in HostSet : pc[h] = "done"
    /\ Len(results) = Len(hosts)

\* C19 Aggregation consistency.  At every point succeeded + failed is the
\* number of collected results, succeeded counts the collected results with
\* success = TRUE and failed those with success = FALSE; the counters change
\* only in the collecting step of main, by one for one appended result, never
\* in a step of a workflow; and at exit they are the numbers of hosts whose
\* workflow succeeded and failed, in whatever order the workflows completed.
C19_AggregationConsistency ==
    /\ [](/\ succeeded + failed = Len(results)
          /\ succeeded = Cardinality({i \in 1..Len(results) : results[i].success})
          /\ failed = Cardinality({i \in 1..Len(results) : ~results[i].success})
          /\ mainPc = "exited" =>
                /\ succeeded = Cardinality({h \in HostSet : future_result(h).success})
                /\ failed = Cardinality({h \in HostSet : ~future_result(h).success}))
    /\ [][(succeeded' # succeeded \/ failed' # failed) =>
            /\ mainPc = "collect"
            /\ Len(results') = Len(results) + 1
            /\ succeeded' + failed' = succeeded + failed + 1
            /\ UNCHANGED <<pc, result>>]_vars

\* C19 witness: main has exited with one succeeded and one failed result,
\* the succeeded one from a workflow that only switched, collected in
\* another order than the hosts were submitted.
C19_Witness ==
    /\ mainPc = "exited"
    /\ succeeded = 1
    /\ failed = 1
    /\ results[1].ip # hosts[1]
    /\ \E i \in 1..Len(results) :
         results[i].success /\ ~results[i].updated /\ results[i].switched

\* C20 Both targets supplied.  When update_pools_list is called with a
\* disable url and an enable url and no replacement list, every entry whose
\* url is the disable url ends with disabled = 1, also when the two urls are
\* the same; every entry whose url is the enable url and not the disable url
\* ends with disabled = 0; every other entry is returned as it was.
C20_BothTargets ==
    (/\ mut.pc = "once"
     /\ mut.new_pools = None
     /\ Truthy(mut.disable_url)
     /\ Truthy(mut.enable_url)
     /\ ~mut.once.raised) =>
        LET pin == pools_of(mut.doc)
            pout == mut.once.val
        IN  /\ Len(pout) = Len(pin)
            /\ \A i \in 1..Len(pin) :
                 IF HasUrl(pin[i], mut.disable_url)
                 THEN "disabled" \in DOMAIN pout[i] /\ pout[i].disabled = 1
                 ELSE IF HasUrl(pin[i], mut.enable_url)
                      THEN "disabled" \in DOMAIN pout[i] /\ pout[i].disabled = 0
                      ELSE pout[i] = pin[i]

\* C20 witness: one call with two different targets has disabled the entry
\* of the disable url and enabled the entry of the enable url.
C20_Witness ==
    /\ mut.pc = "once"
    /\ mut.new_pools = None
    /\ mut.disable_url = Some("u1")
    /\ mut.enable_url = Some("u2")
    /\ ~mut.once.raised
    /\ Len(pools_of(mut.doc)) = 2
    /\ HasUrl(pools_of(mut.doc)[1], mut.disable_url)
    /\ HasUrl(pools_of(mut.doc)[2], mut.enable_url)
    /\ "disabled" \notin DOMAIN pools_of(mut.doc)[1]
    /\ "disabled" \in DOMAIN pools_of(mut.doc)[2]
    /\ pools_of(mut.doc)[2].disabled = 1
    /\ mut.once.val[1].disabled = 1
    /\ mut.once.val[2].disabled = 0

\* C20 witness of the precedence: both targets are the same url, and the
\* entry of that url, enabled before the call, is disabled after it.
C20_SameUrlReached ==
    /\ mut.pc = "once"
    /\ mut.new_pools = None
    /\ mut.disable_url = Some("u1")
    /\ mut.enable_url = Some("u1")
    /\ ~mut.once.raised
    /\ \E i \in 1..Len(pools_of(mut.doc)) :
         /\ HasUrl(pools_of(mut.doc)[i], mut.disable_url)
         /\ "disabled" \in DOMAIN pools_of(mut.doc)[i]
         /\ pools_of(mut.doc)[i].disabled = 0
         /\ mut.once.val[i].disabled = 1

====
